---- MODULE Spec2Model ----
(***************************************************************************)
(* Model of nmmn/lsd.py: the list / set / array helper functions           *)
(* cmset_and, cmsetsort_and, cmset_not, delnan, delweird, search,          *)
(* sortindex, norm and bootstrap.                                          *)
(*                                                                         *)
(* The library is stateless.  The state machine is a caller that invokes   *)
(* one function on arguments drawn from bounded sets (pc "idle" -> "done") *)
(* and then drops the result (pc "done" -> "idle").  A Python sequence is  *)
(* a TLA+ sequence; Python indices are kept 0-based, so the Python         *)
(* subscript x[i] is At(x, i) == x[i + 1].                                 *)
(***************************************************************************)
EXTENDS Integers, Sequences, FiniteSets

VARIABLES pc, fn, args, ret

vars == <<pc, fn, args, ret>>

(***************************************************************************)
(* Bounds of the model.                                                    *)
(***************************************************************************)
\* longest sequence handed to the set functions, search, sortindex, delnan
MaxLen == 3
\* the numeric elements are 0..MaxVal
MaxVal == 2
\* longest sequence of reference values handed to search
MaxRef == 2
\* longest array handed to norm
NormLen == 2
\* longest array handed to bootstrap
BootLen == 2
\* most arrays in the list handed to bootstrap
MaxArrays == 2

Vals == 0 .. MaxVal

SeqsUpTo(S, n) == UNION {[1 .. k -> S] : k \in 0 .. n}

(***************************************************************************)
(* Python / numpy primitives.                                              *)
(***************************************************************************)
\* x[i] with a 0-based index
At(x, i) == x[i + 1]

\* range(len(x))
IndexRange(x) == 0 .. (Len(x) - 1)

\* "xx in y": true when some element of y equals xx
In(xx, y) == \E j \in IndexRange(y) : At(y, j) = xx

\* outcome of a call: a returned value, or an exception
Return(v) == [raised |-> FALSE, val |-> v]
Raise == [raised |-> TRUE, val |-> <<>>]

(***************************************************************************)
(* cmset_and(x,y): for xx in x: if xx in y: idel.append(i); i=i+1          *)
(***************************************************************************)
RECURSIVE cmset_and_loop(_, _, _, _)
cmset_and_loop(x, y, i, idel) ==
    IF i >= Len(x) THEN idel
    ELSE cmset_and_loop(x, y, i + 1,
                        IF In(At(x, i), y) THEN Append(idel, i) ELSE idel)

\* mutant: a value of x already recorded is not recorded again
RECURSIVE cmset_and_dedup_loop(_, _, _, _)
cmset_and_dedup_loop(x, y, i, idel) ==
    IF i >= Len(x) THEN idel
    ELSE cmset_and_dedup_loop(x, y, i + 1,
            IF /\ In(At(x, i), y)
               /\ ~ \E k \in 1 .. Len(idel) : At(x, idel[k]) = At(x, i)
            THEN Append(idel, i) ELSE idel)

cmset_and_dedup(x, y) == cmset_and_dedup_loop(x, y, 0, <<>>)

cmset_and(x, y) == cmset_and_loop(x, y, 0, <<>>)

(***************************************************************************)
(* cmset_not(x,y): for xx in x: if xx not in y: idel.append(i); i=i+1      *)
(***************************************************************************)
RECURSIVE cmset_not_loop(_, _, _, _)
cmset_not_loop(x, y, i, idel) ==
    IF i >= Len(x) THEN idel
    ELSE cmset_not_loop(x, y, i + 1,
                        IF ~ In(At(x, i), y) THEN Append(idel, i) ELSE idel)

cmset_not(x, y) == cmset_not_loop(x, y, 0, <<>>)

(***************************************************************************)
(* cmsetsort_and(x,y):                                                     *)
(*   for yy in y: i=numpy.where(x==yy); idel.append( i[0].item() )         *)
(***************************************************************************)
\* numpy.where(x==yy)[0]: the indices of x holding yy, ascending
RECURSIVE numpy_where_eq_loop(_, _, _, _)
numpy_where_eq_loop(x, yy, i, found) ==
    IF i >= Len(x) THEN found
    ELSE numpy_where_eq_loop(x, yy, i + 1,
                             IF At(x, i) = yy THEN Append(found, i) ELSE found)

numpy_where_eq(x, yy) == numpy_where_eq_loop(x, yy, 0, <<>>)

\* ndarray.item(): the one element of a size-1 array, ValueError otherwise
item(a) == IF Len(a) = 1 THEN Return(a[1]) ELSE Raise

RECURSIVE cmsetsort_and_loop(_, _, _, _)
cmsetsort_and_loop(x, y, k, idel) ==
    IF k >= Len(y) THEN Return(idel)
    ELSE LET i == numpy_where_eq(x, At(y, k))
             it == item(i)
         IN  IF it.raised THEN Raise
             ELSE cmsetsort_and_loop(x, y, k + 1, Append(idel, it.val))

\* mutant: an element of y without a match in x is skipped
RECURSIVE cmsetsort_and_skip_loop(_, _, _, _)
cmsetsort_and_skip_loop(x, y, k, idel) ==
    IF k >= Len(y) THEN Return(idel)
    ELSE LET i == numpy_where_eq(x, At(y, k))
             it == item(i)
         IN  IF Len(i) = 0 THEN cmsetsort_and_skip_loop(x, y, k + 1, idel)
             ELSE IF it.raised THEN Raise
             ELSE cmsetsort_and_skip_loop(x, y, k + 1, Append(idel, it.val))

cmsetsort_and_skip(x, y) == cmsetsort_and_skip_loop(x, y, 0, <<>>)

cmsetsort_and(x, y) == cmsetsort_and_loop(x, y, 0, <<>>)

(***************************************************************************)
(* Floating-point entries for delnan / delweird: a finite number, +Inf,    *)
(* -Inf or NaN.                                                            *)
(***************************************************************************)
Fin(n) == [cls |-> "fin", v |-> n]
NaN == [cls |-> "nan", v |-> 0]
PosInf == [cls |-> "inf", v |-> 1]
NegInf == [cls |-> "inf", v |-> -1]

Floats == {Fin(n) : n \in Vals} \cup {NaN, PosInf, NegInf}

numpy_isnan(e) == e.cls = "nan"
numpy_isinf(e) == e.cls = "inf"

\* numpy.where(mask)[0] for the mask of nan entries
RECURSIVE where_nan_loop(_, _, _)
where_nan_loop(x, i, found) ==
    IF i >= Len(x) THEN found
    ELSE where_nan_loop(x, i + 1,
                        IF numpy_isnan(At(x, i)) = TRUE
                        THEN Append(found, i) ELSE found)

where_nan(x) == where_nan_loop(x, 0, <<>>)

\* numpy.where(mask)[0] for the mask of nan or inf entries
RECURSIVE where_weird_loop(_, _, _)
where_weird_loop(x, i, found) ==
    IF i >= Len(x) THEN found
    ELSE where_weird_loop(x, i + 1,
                          IF (numpy_isnan(At(x, i)) = TRUE) \/ (numpy_isinf(At(x, i)) = TRUE)
                          THEN Append(found, i) ELSE found)

\* mutant: only the positive infinity is treated as inf
RECURSIVE where_weird_posinf_loop(_, _, _)
where_weird_posinf_loop(x, i, found) ==
    IF i >= Len(x) THEN found
    ELSE where_weird_posinf_loop(x, i + 1,
                          IF (numpy_isnan(At(x, i)) = TRUE) \/ (At(x, i) = PosInf)
                          THEN Append(found, i) ELSE found)

where_weird_posinf(x) == where_weird_posinf_loop(x, 0, <<>>)

where_weird(x) == where_weird_loop(x, 0, <<>>)

\* numpy.delete(arr, obj): a new array without the entries at the indices
\* obj; arr itself is not written.  "arr" is the argument after the call.
RECURSIVE numpy_delete_loop(_, _, _, _)
numpy_delete_loop(arr, obj, i, out) ==
    IF i >= Len(arr) THEN out
    ELSE numpy_delete_loop(arr, obj, i + 1,
                           IF \E k \in 1 .. Len(obj) : obj[k] = i
                           THEN out ELSE Append(out, At(arr, i)))

numpy_delete(arr, obj) == [arr |-> arr, out |-> numpy_delete_loop(arr, obj, 0, <<>>)]

(***************************************************************************)
(* delnan(x): i=numpy.where(numpy.isnan(x)==True); numpy.delete(x,i)       *)
(***************************************************************************)
delnan(x) == numpy_delete(x, where_nan(x))

(***************************************************************************)
(* delweird(x): i=numpy.where(isnan(x)==True | isinf(x)==True);            *)
(*              numpy.delete(x,i)                                          *)
(***************************************************************************)
delweird(x) == numpy_delete(x, where_weird(x))

(***************************************************************************)
(* search(xref, x).  xref is a scalar or a sequence of reference values:   *)
(* [scalar |-> TRUE, vals |-> <<r>>] or [scalar |-> FALSE, vals |-> seq].  *)
(***************************************************************************)
\* numpy.size(xref): 1 for a scalar, the number of elements of a sequence
numpy_size(xref) == IF xref.scalar THEN 1 ELSE Len(xref.vals)

numpy_abs(n) == IF n < 0 THEN 0 - n ELSE n

\* numpy.abs(x-r), elementwise
AbsDiff(x, r) == [k \in 1 .. Len(x) |-> numpy_abs(x[k] - r)]

\* ndarray.argmin(): the first index of the minimum; ValueError when empty
RECURSIVE argmin_loop(_, _, _)
argmin_loop(a, i, best) ==
    IF i >= Len(a) THEN best
    ELSE argmin_loop(a, i + 1, IF At(a, i) < At(a, best) THEN i ELSE best)

\* mutant: a later entry equal to the minimum replaces the earlier one
RECURSIVE argmin_last_loop(_, _, _)
argmin_last_loop(a, i, best) ==
    IF i >= Len(a) THEN best
    ELSE argmin_last_loop(a, i + 1, IF At(a, i) <= At(a, best) THEN i ELSE best)

argmin_last(a) == IF Len(a) = 0 THEN Raise ELSE Return(argmin_last_loop(a, 1, 0))

argmin(a) == IF Len(a) = 0 THEN Raise ELSE Return(argmin_loop(a, 1, 0))

\* for y in xref: i.append( (numpy.abs(x-y)).argmin() )
RECURSIVE search_loop(_, _, _, _)
search_loop(xref, x, k, i) ==
    IF k >= Len(xref.vals) THEN Return([scalar |-> FALSE, idx |-> i])
    ELSE LET m == argmin(AbsDiff(x, At(xref.vals, k)))
         IN  IF m.raised THEN Raise
             ELSE search_loop(xref, x, k + 1, Append(i, m.val))

\* the result is [scalar |-> TRUE, idx |-> <<i>>] for a single index and
\* [scalar |-> FALSE, idx |-> list] for a list of indices
search(xref, x) ==
    IF numpy_size(xref) = 1
    THEN LET m == argmin(AbsDiff(x, xref.vals[1]))
         IN  IF m.raised THEN Raise
             ELSE Return([scalar |-> TRUE, idx |-> <<m.val>>])
    ELSE search_loop(xref, x, 0, <<>>)

(***************************************************************************)
(* sortindex(x,**kwargs): sorted( range(numpy.size(x)), key=f, **kwargs )  *)
(* with f(i) = x[i].  sorted() is a stable sort; with reverse=True it      *)
(* reverses the list, sorts it, and reverses the result.                   *)
(***************************************************************************)
Reverse(s) == [k \in 1 .. Len(s) |-> s[Len(s) + 1 - k]]

\* range(n)
range(n) == [k \in 1 .. n |-> k - 1]

\* insert index i into the sorted list s after every entry whose key is <=
RECURSIVE insert_stable(_, _, _)
insert_stable(x, s, i) ==
    IF s = <<>> THEN <<i>>
    ELSE IF At(x, s[Len(s)]) <= At(x, i) THEN Append(s, i)
    ELSE Append(insert_stable(x, SubSeq(s, 1, Len(s) - 1), i), s[Len(s)])

\* stable ascending sort of the index list s by key x[i]
RECURSIVE stable_sort_loop(_, _, _, _)
stable_sort_loop(x, s, k, out) ==
    IF k > Len(s) THEN out
    ELSE stable_sort_loop(x, s, k + 1, insert_stable(x, out, s[k]))

stable_sort(x, s) == stable_sort_loop(x, s, 1, <<>>)

\* mutant: reverse=True only reverses the sorted result
sorted_reverse_after(x, s, reverse) ==
    IF reverse THEN Reverse(stable_sort(x, s)) ELSE stable_sort(x, s)

\* sorted(s, key=lambda i: x[i], reverse=reverse)
sorted(x, s, reverse) ==
    IF reverse THEN Reverse(stable_sort(x, Reverse(s))) ELSE stable_sort(x, s)

sortindex(x, reverse) == sorted(x, range(Len(x)), reverse)

(***************************************************************************)
(* norm(x1,x2=None):                                                       *)
(*   if x2==None: return x1/x1.max()                                       *)
(*   else:        return x1*x2.max()/x1.max()                              *)
(* x2 is [none |-> TRUE, arr |-> <<>>] when the argument is left out and   *)
(* [none |-> FALSE, arr |-> a] for an array a.  A quotient is kept as the  *)
(* pair numerator / denominator; numpy does not raise on a zero divisor.   *)
(***************************************************************************)
NormVals == -1 .. MaxVal

Frac(n, d) == [num |-> n, den |-> d]

\* ndarray.max(): ValueError on an empty array
RECURSIVE max_loop(_, _, _)
max_loop(a, i, best) ==
    IF i >= Len(a) THEN best
    ELSE max_loop(a, i + 1, IF At(a, i) > best THEN At(a, i) ELSE best)

max(a) == IF Len(a) = 0 THEN Raise ELSE Return(max_loop(a, 1, At(a, 0)))

\* "x2==None": True for None; for an array the comparison is elementwise
\* and gives an array of False of the same length
eq_None(x2) ==
    IF x2.none THEN [array |-> FALSE, val |-> <<TRUE>>]
    ELSE [array |-> TRUE, val |-> [k \in 1 .. Len(x2.arr) |-> FALSE]]

\* truth value tested by "if": an array of more than one element raises
\* ValueError, an array of one element gives that element.  An empty array
\* is false or raises depending on the numpy release; both end in the same
\* error here because x2.max() raises on an empty array.
truth(c) ==
    IF ~ c.array THEN Return(c.val[1])
    ELSE IF Len(c.val) = 1 THEN Return(c.val[1])
    ELSE IF Len(c.val) = 0 THEN Return(FALSE)
    ELSE Raise

norm(x1, x2) ==
    LET t == truth(eq_None(x2))
        m1 == max(x1)
        m2 == max(x2.arr)
    IN  IF t.raised THEN Raise
        ELSE IF t.val
             THEN IF m1.raised THEN Raise
                  ELSE Return([k \in 1 .. Len(x1) |-> Frac(x1[k], m1.val)])
             ELSE IF m2.raised \/ m1.raised THEN Raise
                  ELSE Return([k \in 1 .. Len(x1) |-> Frac(x1[k] * m2.val, m1.val)])

(***************************************************************************)
(* bootstrap(v).  v is [list |-> FALSE, arrs |-> <<a>>] for one array a    *)
(* and [list |-> TRUE, arrs |-> <<a1, ..., am>>] for a list of arrays.     *)
(***************************************************************************)
BootVals == {0, 1}

\* x[iran]: IndexError when an index is past the end of x
take(x, iran) ==
    IF \E k \in 1 .. Len(iran) : iran[k] >= Len(x) THEN Raise
    ELSE Return([k \in 1 .. Len(iran) |-> At(x, iran[k])])

\* scipy.random.randint(0,n,n): n integers of 0..n-1.  With n = 0 the call
\* raises ("low >= high") or returns an empty array, depending on the
\* numpy release.
randint(low, high, size) ==
    IF high <= low
    THEN {Raise} \cup (IF size = 0 THEN {Return(<<>>)} ELSE {})
    ELSE {Return(d) : d \in [1 .. size -> low .. (high - 1)]}

\* mutant: the draw is sized by the last array of the list
draw_size_last(v) == IF Len(v.arrs) = 0 THEN 0 ELSE Len(v.arrs[Len(v.arrs)])

\* n=v[0].size for a list, n=v.size for an array
draw_size(v) == IF Len(v.arrs) = 0 THEN 0 ELSE Len(v.arrs[1])

\* for x in v: vboot.append(x[iran])
RECURSIVE bootstrap_loop(_, _, _, _)
bootstrap_loop(v, iran, m, vboot) ==
    IF m > Len(v.arrs) THEN Return(vboot)
    ELSE LET t == take(v.arrs[m], iran)
         IN  IF t.raised THEN Raise
             ELSE bootstrap_loop(v, iran, m + 1, Append(vboot, t.val))

\* mutant: every array after the first is indexed by the draw read backwards
RECURSIVE bootstrap_redraw_loop(_, _, _, _)
bootstrap_redraw_loop(v, iran, m, vboot) ==
    IF m > Len(v.arrs) THEN Return(vboot)
    ELSE LET t == take(v.arrs[m], IF m = 1 THEN iran ELSE Reverse(iran))
         IN  IF t.raised THEN Raise
             ELSE bootstrap_redraw_loop(v, iran, m + 1, Append(vboot, t.val))

bootstrap_redraw(v, rnd) ==
    IF v.list
    THEN IF Len(v.arrs) = 0 \/ rnd.raised THEN Raise
         ELSE bootstrap_redraw_loop(v, rnd.val, 1, <<>>)
    ELSE IF rnd.raised THEN Raise
         ELSE LET t == take(v.arrs[1], rnd.val)
              IN  IF t.raised THEN Raise ELSE Return(<<t.val>>)

\* rnd is the outcome of the one randint call the branch taken makes; the
\* result is a list of arrays for a list and <<array>> for an array
bootstrap(v, rnd) ==
    IF v.list
    THEN IF Len(v.arrs) = 0 \/ rnd.raised THEN Raise
         ELSE bootstrap_loop(v, rnd.val, 1, <<>>)
    ELSE IF rnd.raised THEN Raise
         ELSE LET t == take(v.arrs[1], rnd.val)
              IN  IF t.raised THEN Raise ELSE Return(<<t.val>>)

(***************************************************************************)
(* The caller.                                                             *)
(***************************************************************************)
Init ==
    /\ pc = "idle"
    /\ fn = "none"
    /\ args = <<>>
    /\ ret = Return(<<>>)

Call_cmset_and ==
    /\ pc = "idle"
    /\ \E x \in SeqsUpTo(Vals, MaxLen), y \in SeqsUpTo(Vals, MaxLen) :
          /\ args' = [x |-> x, y |-> y]
          /\ ret' = Return(cmset_and(x, y))
    /\ fn' = "cmset_and"
    /\ pc' = "done"

Call_cmset_not ==
    /\ pc = "idle"
    /\ \E x \in SeqsUpTo(Vals, MaxLen), y \in SeqsUpTo(Vals, MaxLen) :
          /\ args' = [x |-> x, y |-> y]
          /\ ret' = Return(cmset_not(x, y))
    /\ fn' = "cmset_not"
    /\ pc' = "done"

Call_cmsetsort_and ==
    /\ pc = "idle"
    /\ \E x \in SeqsUpTo(Vals, MaxLen), y \in SeqsUpTo(Vals, MaxLen) :
          /\ args' = [x |-> x, y |-> y]
          /\ ret' = cmsetsort_and(x, y)
    /\ fn' = "cmsetsort_and"
    /\ pc' = "done"

Call_delnan ==
    /\ pc = "idle"
    /\ \E x \in SeqsUpTo(Floats, MaxLen) :
          LET r == delnan(x)
          IN  /\ args' = [x0 |-> x, x |-> r.arr]
              /\ ret' = Return(r.out)
    /\ fn' = "delnan"
    /\ pc' = "done"

Call_delweird ==
    /\ pc = "idle"
    /\ \E x \in SeqsUpTo(Floats, MaxLen) :
          LET r == delweird(x)
          IN  /\ args' = [x0 |-> x, x |-> r.arr]
              /\ ret' = Return(r.out)
    /\ fn' = "delweird"
    /\ pc' = "done"

Call_search ==
    /\ pc = "idle"
    /\ \E x \in SeqsUpTo(Vals, MaxLen) :
          \E xref \in {[scalar |-> TRUE, vals |-> <<r>>] : r \in Vals}
                      \cup {[scalar |-> FALSE, vals |-> s] : s \in SeqsUpTo(Vals, MaxRef)} :
             /\ args' = [xref |-> xref, x |-> x]
             /\ ret' = search(xref, x)
    /\ fn' = "search"
    /\ pc' = "done"

Call_sortindex ==
    /\ pc = "idle"
    /\ \E x \in SeqsUpTo(Vals, MaxLen), reverse \in BOOLEAN :
          /\ args' = [x |-> x, reverse |-> reverse]
          /\ ret' = Return(sortindex(x, reverse))
    /\ fn' = "sortindex"
    /\ pc' = "done"

Call_norm ==
    /\ pc = "idle"
    /\ \E x1 \in SeqsUpTo(NormVals, NormLen) :
          \E x2 \in {[none |-> TRUE, arr |-> <<>>]}
                    \cup {[none |-> FALSE, arr |-> a] : a \in SeqsUpTo(NormVals, NormLen)} :
             /\ args' = [x1 |-> x1, x2 |-> x2]
             /\ ret' = norm(x1, x2)
    /\ fn' = "norm"
    /\ pc' = "done"

Call_bootstrap ==
    /\ pc = "idle"
    /\ \E v \in {[list |-> FALSE, arrs |-> <<a>>] : a \in SeqsUpTo(BootVals, BootLen)}
                \cup {[list |-> TRUE, arrs |-> l] :
                         l \in SeqsUpTo(SeqsUpTo(BootVals, BootLen), MaxArrays)} :
          \E rnd \in randint(0, draw_size(v), draw_size(v)) :
             /\ args' = [v |-> v, rnd |-> rnd]
             /\ ret' = bootstrap(v, rnd)
    /\ fn' = "bootstrap"
    /\ pc' = "done"

\* the caller drops the result; the library keeps no state between calls
Finish ==
    /\ pc = "done"
    /\ pc' = "idle"
    /\ fn' = "none"
    /\ args' = <<>>
    /\ ret' = Return(<<>>)

Next ==
    \/ Call_cmset_and
    \/ Call_cmset_not
    \/ Call_cmsetsort_and
    \/ Call_delnan
    \/ Call_delweird
    \/ Call_search
    \/ Call_sortindex
    \/ Call_norm
    \/ Call_bootstrap
    \/ Finish

Spec == Init /\ [][Next]_vars

(***************************************************************************)
(* Properties.                                                             *)
(***************************************************************************)
SetOf(s) == {s[k] : k \in 1 .. Len(s)}

StrictlyIncreasing(s) == \A k \in 1 .. (Len(s) - 1) : s[k] < s[k + 1]

Called(f) == pc = "done" /\ fn = f

\* C1: cmset_and(x,y) and cmset_not(x,y) are disjoint, together hold every
\* index of range(len(x)), index i is in cmset_and(x,y) exactly when x[i]
\* equals some element of y, and each list is strictly increasing.
C1_ComplementaryPartition ==
    (Called("cmset_and") \/ Called("cmset_not")) =>
        LET x == args.x
            y == args.y
            a == IF fn = "cmset_and" THEN ret.val ELSE cmset_and(x, y)
            n == IF fn = "cmset_not" THEN ret.val ELSE cmset_not(x, y)
        IN  /\ ~ ret.raised
            /\ SetOf(a) \cap SetOf(n) = {}
            /\ SetOf(a) \cup SetOf(n) = IndexRange(x)
            /\ \A i \in IndexRange(x) :
                  (i \in SetOf(a)) <=> (\E j \in IndexRange(y) : At(x, i) = At(y, j))
            /\ StrictlyIncreasing(a)
            /\ StrictlyIncreasing(n)

\* cmset_and returned two positions of x holding the same value, and some
\* other position of x is not in y
C1_Witness ==
    /\ Called("cmset_and")
    /\ \E i \in SetOf(ret.val), j \in SetOf(ret.val) :
          i < j /\ At(args.x, i) = At(args.x, j)
    /\ \E i \in IndexRange(args.x) : i \notin SetOf(ret.val)

\* C2: when every element of y occurs in x (x may repeat a value, y may
\* repeat a value), cmsetsort_and(x,y) returns r with len(r) = len(y) and
\* x[r[k]] = y[k] for every k.
C2_IndexesInYOrder ==
    (Called("cmsetsort_and") /\ \A k \in IndexRange(args.y) : In(At(args.y, k), args.x)) =>
        /\ ~ ret.raised
        /\ Len(ret.val) = Len(args.y)
        /\ \A k \in IndexRange(args.y) : At(args.x, At(ret.val, k)) = At(args.y, k)

\* C3: cmsetsort_and(x,y) raises whenever some element of y does not occur
\* in x, wherever it sits in y; a returned list is never shorter than y.
C3_RaisesOnMissing ==
    Called("cmsetsort_and") =>
        /\ (\E k \in IndexRange(args.y) : ~ In(At(args.y, k), args.x)) => ret.raised
        /\ ~ ret.raised => Len(ret.val) = Len(args.y)

\* the missing element is the last of y, after an element that x holds once
C3_Witness ==
    /\ Called("cmsetsort_and")
    /\ Len(args.y) >= 2
    /\ Len(numpy_where_eq(args.x, args.y[1])) = 1
    /\ ~ In(args.y[Len(args.y)], args.x)
    /\ ret.raised

\* C4: a bootstrap call that returns made one draw iran of n indices of
\* 0..n-1, n the length of the (first) array; it returns as many arrays as
\* it was given, each of length n, with result[m][k] = v[m][iran[k]] for
\* every array m and position k; given arrays of one length n >= 1 it returns.
C4_OneDrawReindexesAll ==
    Called("bootstrap") =>
        LET v == args.v
            iran == args.rnd.val
            n == Len(v.arrs[1])
        IN  /\ ~ ret.raised =>
                  /\ ~ args.rnd.raised
                  /\ Len(iran) = n
                  /\ \A k \in 1 .. n : iran[k] \in 0 .. (n - 1)
                  /\ Len(ret.val) = Len(v.arrs)
                  /\ \A m \in 1 .. Len(v.arrs) :
                        /\ Len(ret.val[m]) = n
                        /\ \A k \in 1 .. n : ret.val[m][k] = At(v.arrs[m], iran[k])
            /\ ( /\ Len(v.arrs) >= 1
                 /\ \A m \in 1 .. Len(v.arrs) : Len(v.arrs[m]) = n
                 /\ n >= 1 ) => ~ ret.raised

\* a list of two different arrays of one length, resampled by a draw that
\* repeats an index
C4_Witness ==
    /\ Called("bootstrap")
    /\ args.v.list
    /\ Len(args.v.arrs) = 2
    /\ args.v.arrs[1] # args.v.arrs[2]
    /\ Len(args.v.arrs[1]) = Len(args.v.arrs[2])
    /\ ~ ret.raised
    /\ Len(args.rnd.val) >= 2
    /\ args.rnd.val[1] = args.rnd.val[2]

\* C5: for a non-empty x, search reports for every reference value r an
\* index i with |x[i]-r| <= |x[j]-r| for all j, and |x[j]-r| > |x[i]-r|
\* for every j < i.
C5_NearestLowestIndex ==
    (Called("search") /\ Len(args.x) > 0) =>
        /\ ~ ret.raised
        /\ Len(ret.val.idx) = Len(args.xref.vals)
        /\ \A p \in 1 .. Len(args.xref.vals) :
              LET r == args.xref.vals[p]
                  i == ret.val.idx[p]
                  d(j) == numpy_abs(At(args.x, j) - r)
              IN  /\ i \in IndexRange(args.x)
                  /\ \A j \in IndexRange(args.x) :
                        /\ d(i) <= d(j)
                        /\ j < i => d(j) > d(i)

\* two reference values, the second of them equally near two entries of x
C5_Witness ==
    /\ Called("search")
    /\ ~ ret.raised
    /\ Len(args.xref.vals) = 2
    /\ LET r == args.xref.vals[2]
           i == ret.val.idx[2]
       IN  \E j \in IndexRange(args.x) :
              /\ j > i
              /\ At(args.x, j) # At(args.x, i)
              /\ numpy_abs(At(args.x, j) - r) = numpy_abs(At(args.x, i) - r)

\* C6: search returns a single index for a scalar xref and, for a sequence
\* xref of any length, a list of len(xref) indices.
C6_ListForEverySequence ==
    (Called("search") /\ ~ ret.raised) =>
        /\ ret.val.scalar <=> args.xref.scalar
        /\ Len(ret.val.idx) = Len(args.xref.vals)

\* C7: sortindex(x) is a permutation of 0..len(x)-1 that reads x in
\* non-decreasing order (non-increasing with reverse=True); indices of
\* equal values keep their original relative order either way.
C7_StablePermutation ==
    Called("sortindex") =>
        LET x == args.x
            r == ret.val
        IN  /\ ~ ret.raised
            /\ Len(r) = Len(x)
            /\ SetOf(r) = IndexRange(x)
            /\ \A k \in 1 .. Len(r), l \in 1 .. Len(r) :
                  k < l =>
                     /\ IF args.reverse
                        THEN At(x, r[k]) >= At(x, r[l])
                        ELSE At(x, r[k]) <= At(x, r[l])
                     /\ At(x, r[k]) = At(x, r[l]) => r[k] < r[l]

\* a reverse sort of a sequence with two equal values and a different one
C7_Witness ==
    /\ Called("sortindex")
    /\ args.reverse
    /\ \E i \in IndexRange(args.x), j \in IndexRange(args.x) :
          i # j /\ At(args.x, i) = At(args.x, j)
    /\ \E i \in IndexRange(args.x), j \in IndexRange(args.x) :
          At(args.x, i) < At(args.x, j)

NotNaN(e) == e.cls # "nan"

Finite(e) == e.cls = "fin"

\* C8: delnan(x) is the subsequence of the entries of x that are not NaN,
\* delweird(x) the subsequence of the entries that are neither NaN nor
\* +Inf nor -Inf, both in the original order; x is unchanged by the call.
C8_FilterKeepsOrder ==
    /\ Called("delnan") =>
          /\ ~ ret.raised
          /\ ret.val = SelectSeq(args.x0, NotNaN)
          /\ args.x = args.x0
    /\ Called("delweird") =>
          /\ ~ ret.raised
          /\ ret.val = SelectSeq(args.x0, Finite)
          /\ args.x = args.x0

\* delweird on an array with a NaN, a -Inf and two different finite entries
C8_Witness ==
    /\ Called("delweird")
    /\ NaN \in SetOf(args.x0)
    /\ NegInf \in SetOf(args.x0)
    /\ Len(ret.val) < Len(args.x0)
    /\ Len(ret.val) >= 1

\* C9: norm(x1) returns x1 / max(x1) elementwise; norm(x1, x2) with an
\* array x2 of any length >= 1 does not end in an error and returns
\* x1 * max(x2) / max(x1).
C9_NormScalesToMax ==
    (Called("norm") /\ Len(args.x1) > 0 /\ (args.x2.none \/ Len(args.x2.arr) > 0)) =>
        LET x1 == args.x1
            M1 == CHOOSE m \in SetOf(x1) : \A e \in SetOf(x1) : e <= m
            M2 == CHOOSE m \in SetOf(args.x2.arr) : \A e \in SetOf(args.x2.arr) : e <= m
        IN  /\ ~ ret.raised
            /\ Len(ret.val) = Len(x1)
            /\ \A k \in 1 .. Len(x1) :
                  /\ ret.val[k].den = M1
                  /\ ret.val[k].num = IF args.x2.none THEN x1[k] ELSE x1[k] * M2

\* C10: in the list form n is the size of v[0]: the draw has n indices of
\* 0..n-1, every returned array has length n and holds only entries of
\* positions below n, and the call raises exactly when the draw holds an
\* index past the end of an array shorter than n.
C10_FirstArrayFixesDraw ==
    (Called("bootstrap") /\ args.v.list /\ Len(args.v.arrs) >= 1 /\ ~ args.rnd.raised) =>
        LET arrs == args.v.arrs
            iran == args.rnd.val
            n == Len(arrs[1])
        IN  /\ Len(iran) = n
            /\ \A k \in 1 .. n : iran[k] \in 0 .. (n - 1)
            /\ ret.raised <=>
                  \E m \in 1 .. Len(arrs) :
                     Len(arrs[m]) < n /\ \E k \in 1 .. n : iran[k] >= Len(arrs[m])
            /\ ~ ret.raised =>
                  \A m \in 1 .. Len(arrs) :
                     /\ Len(ret.val[m]) = n
                     /\ \A k \in 1 .. n :
                           iran[k] < n /\ ret.val[m][k] = At(arrs[m], iran[k])

\* the second array is shorter than the first and the draw runs past its end
C10_Witness ==
    /\ Called("bootstrap")
    /\ args.v.list
    /\ Len(args.v.arrs) = 2
    /\ Len(args.v.arrs[2]) >= 1
    /\ Len(args.v.arrs[2]) < Len(args.v.arrs[1])
    /\ ~ args.rnd.raised
    /\ ret.raised

====
